---- MODULE Spec2Model ----
(***************************************************************************)
(* Model of napari's track rendering filter and track mouse bindings.      *)
(*                                                                         *)
(*   src/napari/_vispy/filters/tracks.py              TracksFilter         *)
(*   src/napari/layers/tracks/_tracks_mouse_bindings.py   interact         *)
(*                                                                         *)
(* Python values that a field may hold are tagged pairs <<tag, value>>:    *)
(* <<"int", n>>, <<"bool", b>>, <<"None", 0>>, <<"slice", 0>>.  Shader     *)
(* uniforms are the numbers float() makes of them.  Shader results that    *)
(* can be fractional (alpha, size) are rationals <<num, den>> in lowest    *)
(* terms with den > 0; <<0, 0>> stands for NaN.  A float32 array is a      *)
(* sequence of such rationals.                                             *)
(***************************************************************************)
EXTENDS Integers, Sequences, FiniteSets, TLC

VARIABLES
    _current_time,   \* TracksFilter._current_time
    _current_z,      \* TracksFilter._current_z
    _tail_length,    \* TracksFilter._tail_length
    _head_length,    \* TracksFilter._head_length
    _use_fade,       \* TracksFilter._use_fade
    _interactive,    \* TracksFilter._interactive
    _vertex_time,    \* TracksFilter._vertex_time (the per-vertex time array)
    vshader,         \* the uniforms uploaded to the vertex shader
    assigned,        \* history: the value most recently assigned to each property
    shaded,          \* the last run of apply_track_shading on one vertex
    gen,             \* where the interact generator is suspended ("none": no live generator)
    selected,        \* interact's local variable `selected`
    event,           \* the event object interact holds (mutated by the event loop)
    _selected_data,  \* layer._selected_data
    calls,           \* history: the calls made on the layer, in order
    trace            \* history: the events delivered since the latest press

vars == <<_current_time, _current_z, _tail_length, _head_length, _use_fade,
          _interactive, _vertex_time, vshader, assigned, shaded,
          gen, selected, event, _selected_data, calls, trace>>

filterVars == <<_current_time, _current_z, _tail_length, _head_length, _use_fade,
                _interactive, _vertex_time, vshader, assigned>>

layerVars == <<gen, selected, event, _selected_data, calls, trace>>

(***************************************************************************)
(* Bounds of the model.                                                    *)
(***************************************************************************)
MaxTime == 2
MaxLen == 1
MaxZ == 4
MaxSize == 1
MaxVertices == 2
MaxPos == 2
NumTrackVertices == 2
MaxMoves == 2

Times == 0..MaxTime
Lengths == -1..MaxLen
Depths == 0..MaxZ
BaseSizes == 0..MaxSize

(***************************************************************************)
(* Python values.                                                          *)
(***************************************************************************)
None == <<"None", 0>>
SliceValue == <<"slice", 0>>
PyInt(n) == <<"int", n>>
PyBool(b) == <<"bool", b>>
PyList(s) == <<"list", s>>

NaN == <<0, 0>>

isinstance(v, t) == v[1] = t

\* float(x) for an int or a bool
float(v) == IF isinstance(v, "bool") THEN (IF v[2] THEN 1 ELSE 0) ELSE v[2]

\* np.array(v).reshape(-1, 1).astype(np.float32): a list of numbers becomes
\* a column of floats, None becomes the one-element column [[nan]]
np_array(v) ==
    IF isinstance(v, "None") THEN <<NaN>>
    ELSE [i \in DOMAIN v[2] |-> <<v[2][i], 1>>]

\* np.max of a column of floats; a NaN in it makes the maximum NaN
RECURSIVE np_max(_)
np_max(s) ==
    IF Len(s) = 1 THEN s[1]
    ELSE LET m == np_max(Tail(s))
         IN  IF s[1] = NaN \/ m = NaN THEN NaN
             ELSE IF s[1][1] > m[1] THEN s[1] ELSE m

\* float(x) for a numpy float: its number, or NaN
float_of_array_element(r) == IF r = NaN THEN NaN ELSE r[1]

TimeLists == UNION {[1..n -> Times] : n \in 1..MaxVertices}
VertexTimeValues == {PyList(a) : a \in TimeLists} \cup {None}

(***************************************************************************)
(* Rational arithmetic of the shaders.                                     *)
(***************************************************************************)
Abs(x) == IF x < 0 THEN -x ELSE x

RECURSIVE Gcd(_, _)
Gcd(a, b) == IF b = 0 THEN a ELSE Gcd(b, a % b)

\* n/d in lowest terms with a positive denominator (d # 0)
Rat(n, d) ==
    LET g == Gcd(Abs(n), Abs(d))
        s == IF d < 0 THEN -1 ELSE 1
    IN  <<(s * n) \div g, (s * d) \div g>>

Zero == <<0, 1>>
One == <<1, 1>>

\* clamp(r, 0.0, 1.0)
clamp01(r) == IF r[1] <= 0 THEN Zero ELSE IF r[1] >= r[2] THEN One ELSE r

\* r <= 0.0 (false of NaN, as every comparison with NaN)
LeqZero(r) == r[2] # 0 /\ r[1] <= 0

(***************************************************************************)
(* VERT_SHADER: apply_track_shading on one vertex.  u is the record of     *)
(* uniforms, vt and vz the vertex attributes a_vertex_time and a_vertex_z. *)
(***************************************************************************)
max_distance == 3

\* abs($current_z - $a_vertex_z)
z_offset(u, vz) == Abs(u.current_z - vz)

\* d > 1e10, for an integer d (1e10 = 100000 * 100000)
ExceedsLargeRadius(d) ==
    \/ d \div 100000 > 100000
    \/ (d \div 100000 = 100000 /\ d % 100000 > 0)

\* mutant: the radius is the very large one whatever current_z is
exceeds_z_distance_no_radius(u, d) == ExceedsLargeRadius(d)

\* d > z_distance, z_distance = ($current_z >= 0 ? max_distance : 1e10)
exceeds_z_distance(u, d) ==
    IF u.current_z >= 0 THEN d > max_distance ELSE ExceedsLargeRadius(d)

\* mutant: the head cutoff is one time step late
past_head_late(u, vt) == vt > u.current_time + u.head_length + 1

\* $a_vertex_time > $current_time + $head_length
past_head(u, vt) == vt > u.current_time + u.head_length

\* $interactive == 1 && abs($current_z - $a_vertex_z) > z_distance
depth_culled(u, vz) ==
    u.interactive = 1 /\ exceeds_z_distance(u, z_offset(u, vz))

\* the alpha of the hidden branch
hidden_alpha(u, vt) ==
    IF vt <= u.current_time + 1 THEN <<-100, 1>> ELSE Zero

\* mutant: the fade forgets the head length in its numerator
fade_without_head(u, vt) ==
    <<u.current_time - vt, u.tail_length + u.head_length>>

\* fade, as the pair <<numerator, denominator>> of the division
fade(u, vt) ==
    <<u.head_length + u.current_time - vt, u.tail_length + u.head_length>>

\* mutant: the alpha is the fade itself, not its complement
alpha_of_fade_not_complemented(f) == clamp01(Rat(f[1], f[2]))

\* clamp(1.0 - fade, 0.0, 1.0), for a fade with a nonzero denominator
alpha_of_fade(f) == clamp01(Rat(f[2] - f[1], f[2]))

\* What a division by zero in the fade can leave in alpha: GLSL leaves the
\* quotient unspecified (an infinity clamps to 0 or to 1, a NaN stays or
\* clamps to either end, any other value clamps into [0, 1]).
UnspecifiedAlphas == {Zero, <<1, 2>>, One, NaN}

\* the alphas the fade branch can produce
fade_alphas(u, vt) ==
    LET f == fade(u, vt)
    IN  IF f[2] = 0 THEN UnspecifiedAlphas ELSE {alpha_of_fade(f)}

\* mutant: the override is missing
use_fade_override_missing(u, alpha) == alpha

\* if ($use_fade == 0) alpha = 1.0
use_fade_override(u, alpha) == IF u.use_fade = 0 THEN One ELSE alpha

\* v_size = clamp(size_factor, 0.0, 1.0) * v_size
size_out(u, vz, v_size_in) ==
    LET size_factor == Rat(max_distance - z_offset(u, vz), max_distance)
        c == clamp01(size_factor)
    IN  Rat(c[1] * v_size_in, c[2])

\* the values v_track_color.a can take
vertex_alphas(u, vt, vz) ==
    LET branch == IF past_head(u, vt) \/ depth_culled(u, vz)
                  THEN {hidden_alpha(u, vt)}
                  ELSE fade_alphas(u, vt)
    IN  {use_fade_override(u, a) : a \in branch}

\* FRAG_SHADER: v_track_color.a <= 0.0 || v_size <= 0.0
frag_discard(alpha, v_size) == LeqZero(alpha) \/ LeqZero(v_size)

(***************************************************************************)
(* TracksFilter: construction, the property setters and getters.           *)
(***************************************************************************)
NoShading ==
    [run |-> FALSE, a_vertex_time |-> 0, a_vertex_z |-> 0, v_size_in |-> 0,
     alpha |-> Zero, v_size |-> Zero, discard |-> FALSE]

NoEvent == [type |-> "none", position |-> <<"pos", 0>>, modifiers |-> <<>>]

\* the layer and the event loop before any interaction
InitLayer ==
    /\ gen = "none"
    /\ selected = None
    /\ event = NoEvent
    /\ _selected_data = None
    /\ calls = <<>>
    /\ trace = <<>>

\* TracksFilter.__init__: each argument goes through its property setter
Construct(current_time, current_z, tail_length, head_length, use_fade, interactive, vertex_time) ==
    /\ _current_time = current_time
    /\ _current_z = current_z
    /\ _tail_length = tail_length
    /\ _head_length = head_length
    /\ _use_fade = use_fade
    /\ _interactive = interactive
    /\ _vertex_time = np_array(vertex_time)
    /\ vshader = [current_time |-> float(current_time),
                  current_z |-> IF current_z = None THEN -1 ELSE float(current_z),
                  tail_length |-> float(tail_length),
                  head_length |-> float(head_length),
                  use_fade |-> float(use_fade),
                  interactive |-> float(interactive)]
    /\ assigned = [current_time |-> current_time, current_z |-> current_z,
                   tail_length |-> tail_length, head_length |-> head_length,
                   use_fade |-> use_fade, interactive |-> interactive]
    /\ shaded = NoShading

TimeValues == {PyInt(t) : t \in Times}
DepthValues == {PyInt(z) : z \in Depths} \cup {None}
LengthValues == {PyInt(l) : l \in Lengths}
BoolValues == {PyBool(b) : b \in BOOLEAN}

\* a filter constructed with any arguments
Init ==
    /\ \E ct \in TimeValues, cz \in DepthValues, tl \in LengthValues,
          hl \in LengthValues, uf \in BoolValues, ia \in BoolValues,
          vt \in VertexTimeValues :
            Construct(ct, cz, tl, hl, uf, ia, vt)
    /\ InitLayer

\* @current_time.setter
set_current_time(n) ==
    /\ _current_time' = n
    /\ vshader' = [vshader EXCEPT !.current_time =
                      IF isinstance(n, "slice")
                      THEN float_of_array_element(np_max(_vertex_time))
                      ELSE float(n)]
    /\ assigned' = [assigned EXCEPT !.current_time = n]
    /\ UNCHANGED <<_current_z, _tail_length, _head_length, _use_fade,
                   _interactive, _vertex_time, shaded, layerVars>>

\* @current_z.setter
set_current_z(n) ==
    /\ _current_z' = n
    /\ vshader' = [vshader EXCEPT !.current_z =
                      IF n = None THEN -1 ELSE float(n)]
    /\ assigned' = [assigned EXCEPT !.current_z = n]
    /\ UNCHANGED <<_current_time, _tail_length, _head_length, _use_fade,
                   _interactive, _vertex_time, shaded, layerVars>>

\* @use_fade.setter
set_use_fade(value) ==
    /\ _use_fade' = value
    /\ vshader' = [vshader EXCEPT !.use_fade = float(value)]
    /\ assigned' = [assigned EXCEPT !.use_fade = value]
    /\ UNCHANGED <<_current_time, _current_z, _tail_length, _head_length,
                   _interactive, _vertex_time, shaded, layerVars>>

\* @interactive.setter
set_interactive(value) ==
    /\ _interactive' = value
    /\ vshader' = [vshader EXCEPT !.interactive = float(value)]
    /\ assigned' = [assigned EXCEPT !.interactive = value]
    /\ UNCHANGED <<_current_time, _current_z, _tail_length, _head_length,
                   _use_fade, _vertex_time, shaded, layerVars>>

\* @tail_length.setter
set_tail_length(tail_length) ==
    /\ _tail_length' = tail_length
    /\ vshader' = [vshader EXCEPT !.tail_length = float(tail_length)]
    /\ assigned' = [assigned EXCEPT !.tail_length = tail_length]
    /\ UNCHANGED <<_current_time, _current_z, _head_length, _use_fade,
                   _interactive, _vertex_time, shaded, layerVars>>

\* @head_length.setter
set_head_length(head_length) ==
    /\ _head_length' = head_length
    /\ vshader' = [vshader EXCEPT !.head_length = float(head_length)]
    /\ assigned' = [assigned EXCEPT !.head_length = head_length]
    /\ UNCHANGED <<_current_time, _current_z, _tail_length, _use_fade,
                   _interactive, _vertex_time, shaded, layerVars>>

\* @vertex_time.setter
set_vertex_time(v_time) ==
    /\ _vertex_time' = np_array(v_time)
    /\ UNCHANGED <<_current_time, _current_z, _tail_length, _head_length,
                   _use_fade, _interactive, vshader, assigned, shaded,
                   layerVars>>

\* the property getters
get_current_time == _current_time
get_current_z == _current_z
get_use_fade == _use_fade
get_interactive == _interactive
get_tail_length == _tail_length
get_head_length == _tail_length

SetCurrentTime == \E n \in TimeValues \cup {SliceValue} : set_current_time(n)
SetCurrentZ == \E n \in DepthValues : set_current_z(n)
SetUseFade == \E v \in BoolValues : set_use_fade(v)
SetInteractive == \E v \in BoolValues : set_interactive(v)
SetTailLength == \E l \in LengthValues : set_tail_length(l)
SetHeadLength == \E l \in LengthValues : set_head_length(l)
SetVertexTime == \E a \in VertexTimeValues : set_vertex_time(a)

Next ==
    \/ SetCurrentTime
    \/ SetCurrentZ
    \/ SetUseFade
    \/ SetInteractive
    \/ SetTailLength
    \/ SetHeadLength
    \/ SetVertexTime

Spec == Init /\ [][Next]_vars

(***************************************************************************)
(* The shaders run on one vertex of the line under the current uniforms.   *)
(* v_size is read before the shader writes it, so its incoming value is    *)
(* whatever the build leaves there: any of BaseSizes.                      *)
(***************************************************************************)
apply_track_shading(vt, vz, v_size_in) ==
    /\ \E a \in vertex_alphas(vshader, vt, vz) :
          LET sz == size_out(vshader, vz, v_size_in)
          IN  shaded' = [run |-> TRUE, a_vertex_time |-> vt, a_vertex_z |-> vz,
                         v_size_in |-> v_size_in, alpha |-> a, v_size |-> sz,
                         discard |-> frag_discard(a, sz)]
    /\ UNCHANGED <<filterVars, layerVars>>

Shade == \E vt \in Times, vz \in Depths, sz \in BaseSizes :
            apply_track_shading(vt, vz, sz)

\* a filter constructed with any arguments over a one-vertex line
InitShader ==
    /\ \E ct \in TimeValues, cz \in DepthValues, tl \in LengthValues,
          hl \in LengthValues, uf \in BoolValues, ia \in BoolValues :
            Construct(ct, cz, tl, hl, uf, ia, PyList(<<0>>))
    /\ InitLayer

NextShader == Shade

SpecShader == InitShader /\ [][NextShader]_vars

(***************************************************************************)
(* interact(layer, event): the mouse drag callback of the tracks layer.    *)
(* It is a generator: the event loop runs it to its first yield on a       *)
(* press, resumes it on every move of the drag and on the release, with    *)
(* the same event object updated in place.  Layer methods are recorded in  *)
(* `calls` (the calls of the interaction begun by the latest press).       *)
(***************************************************************************)
Positions == {<<"pos", p>> : p \in 1..MaxPos}
TrackVertices == {<<"v", i>> : i \in 1..NumTrackVertices}
SelectResults == TrackVertices \cup {None}
ModifierKeys == {"Shift", "Alt", "Control"}
ModifierLists ==
    {m \in UNION {[1..n -> ModifierKeys] : n \in 0..3} :
        \A i, j \in DOMAIN m : i # j => m[i] # m[j]}

_current_track_id == <<"track", 0>>

Call(op, a, b, ret) == [op |-> op, a |-> a, b |-> b, ret |-> ret]
SelectCall(pos, ret) == Call("select", pos, None, ret)
AddCall(pos, id) == Call("add", pos, id, None)
RemoveCall(v) == Call("remove", v, None, None)
MoveCall(v, pos) == Call("move", v, pos, None)
JoinCall(v, w) == Call("join", v, w, None)

InList(x, m) == \E i \in DOMAIN m : m[i] = x

\* mutant: a later click overwrites the stored selection instead of joining
shift_control_branch_overwrites(stored, sel) ==
    [stored |-> sel, calls |-> <<>>]

\* lines 28-31: store the first selection, join a later one to it
shift_control_branch(stored, sel) ==
    IF stored = None
    THEN [stored |-> sel, calls |-> <<>>]
    ELSE IF sel # None
         THEN [stored |-> stored, calls |-> <<JoinCall(stored, sel)>>]
         ELSE [stored |-> stored, calls |-> <<>>]

\* mutant: the loop moves on every event, the release included
drag_loop_any_event(ev, sel) ==
    [gen |-> "L22", calls |-> <<MoveCall(sel, ev.position)>>]

\* lines 20-22: while event.type == 'mouse_move': layer.move(...); yield
drag_loop(ev, sel) ==
    IF ev.type = "mouse_move"
    THEN [gen |-> "L22", calls |-> <<MoveCall(sel, ev.position)>>]
    ELSE [gen |-> "none", calls |-> <<>>]

\* interact run from its start to its first yield or its end; ret is what
\* layer.select returns if this run calls it
interact(ev, ret) ==
    LET m == ev.modifiers
        sel == SelectCall(ev.position, ret)
    IN
    IF Len(m) = 1 THEN
        IF m[1] = "Shift" THEN
            /\ calls' = <<AddCall(ev.position, _current_track_id)>>
            /\ gen' = "none" /\ selected' = None
            /\ UNCHANGED _selected_data
        ELSE IF m[1] = "Alt" THEN
            /\ calls' = IF ret # None THEN <<sel, RemoveCall(ret)>> ELSE <<sel>>
            /\ gen' = "none" /\ selected' = None
            /\ UNCHANGED _selected_data
        ELSE IF m[1] = "Control" THEN
            /\ calls' = <<sel>>
            /\ IF ret = None
               THEN gen' = "none" /\ selected' = None
               ELSE gen' = "L18" /\ selected' = ret
            /\ UNCHANGED _selected_data
        ELSE
            /\ calls' = <<>>
            /\ gen' = "none" /\ selected' = None
            /\ UNCHANGED _selected_data
    ELSE IF Len(m) = 2 /\ InList("Shift", m) /\ InList("Control", m) THEN
        LET b == shift_control_branch(_selected_data, ret)
        IN  /\ calls' = <<sel>> \o b.calls
            /\ _selected_data' = b.stored
            /\ gen' = "none" /\ selected' = None
    ELSE
        /\ calls' = <<>>
        /\ gen' = "none" /\ selected' = None
        /\ UNCHANGED _selected_data

\* interact resumed after a yield (line 18 or line 22)
interact_resume(ev) ==
    LET r == drag_loop(ev, selected)
    IN  /\ calls' = calls \o r.calls
        /\ selected' = IF r.gen = "none" THEN None ELSE selected
        /\ UNCHANGED _selected_data

NumMoves == Cardinality({i \in DOMAIN trace : trace[i].type = "mouse_move"})

\* the event loop: a press starts the callback
MousePress ==
    /\ gen = "none"
    /\ \E m \in ModifierLists, pos \in Positions, ret \in SelectResults :
          LET ev == [type |-> "mouse_press", position |-> pos, modifiers |-> m]
          IN  /\ event' = ev
              /\ trace' = <<[type |-> "mouse_press", position |-> pos]>>
              /\ interact(ev, ret)
    /\ UNCHANGED <<filterVars, shaded>>

\* the event loop: a move during the drag resumes the suspended callback
MouseMove ==
    /\ gen # "none"
    /\ NumMoves < MaxMoves
    /\ \E pos \in Positions :
          LET ev == [event EXCEPT !.type = "mouse_move", !.position = pos]
          IN  /\ event' = ev
              /\ trace' = Append(trace, [type |-> "mouse_move", position |-> pos])
              /\ interact_resume(ev)
              /\ gen' = drag_loop(ev, selected).gen
    /\ UNCHANGED <<filterVars, shaded>>

\* the event loop: the release resumes the suspended callback a last time
\* and then drops the generator
MouseRelease ==
    /\ gen # "none"
    /\ \E pos \in Positions :
          LET ev == [event EXCEPT !.type = "mouse_release", !.position = pos]
          IN  /\ event' = ev
              /\ trace' = Append(trace, [type |-> "mouse_release", position |-> pos])
              /\ interact_resume(ev)
              /\ gen' = "none"
    /\ UNCHANGED <<filterVars, shaded>>

\* TracksFilter() with the defaults of lines 106-113 (vertex_time = None),
\* and a layer nothing has interacted with
InitInteract ==
    /\ Construct(PyInt(0), PyInt(0), PyInt(30), PyInt(0), PyBool(TRUE),
                 PyBool(FALSE), None)
    /\ InitLayer

NextInteract ==
    \/ MousePress
    \/ MouseMove
    \/ MouseRelease

SpecInteract == InitInteract /\ [][NextInteract]_vars

(***************************************************************************)
(* Properties of the vertex and fragment shaders (under SpecShader).       *)
(***************************************************************************)
HiddenAlphas == {<<-100, 1>>, Zero}

\* the shaded vertex is past the head cutoff
ShadedPastHead ==
    shaded.a_vertex_time > vshader.current_time + vshader.head_length

\* the depth distance of the shaded vertex
ShadedZOffset == Abs(vshader.current_z - shaded.a_vertex_z)

\* the shaded vertex is outside the interactive depth radius
ShadedDepthCulled ==
    /\ vshader.interactive = 1
    /\ IF vshader.current_z >= 0 THEN ShadedZOffset > 3
       ELSE ExceedsLargeRadius(ShadedZOffset)

FadeDenominator == vshader.tail_length + vshader.head_length

\* C1: with use_fade off, the alpha written to the vertex is exactly 1.0,
\* whatever the vertex time and depth and the other uniforms are.
C1_NoFadeAlphaIsOne ==
    (shaded.run /\ vshader.use_fade = 0) => shaded.alpha = One

\* C1 witness: use_fade is off and a vertex past the head cutoff and outside
\* the interactive depth radius has been shaded.
C1_Witness ==
    /\ shaded.run /\ vshader.use_fade = 0
    /\ ShadedPastHead /\ ShadedDepthCulled
    /\ shaded.alpha = One

\* C2 as stated: in every filter state a vertex past the head cutoff gets
\* the hidden sentinel or 0.
C2_Original == (shaded.run /\ ShadedPastHead) => shaded.alpha \in HiddenAlphas

\* C2 amended: in every filter state with use_fade on, a vertex with
\* vertex_time > current_time + head_length gets the hidden sentinel or 0;
\* with use_fade off it gets 1.0.
C2_PastHeadHiddenWhenFading ==
    (shaded.run /\ ShadedPastHead) =>
        IF vshader.use_fade = 0 THEN shaded.alpha = One
        ELSE shaded.alpha \in HiddenAlphas

\* C2 witness: with use_fade on, a vertex one step past the head got the sentinel.
C2_Witness ==
    /\ shaded.run /\ vshader.use_fade = 1 /\ ShadedPastHead
    /\ shaded.alpha = <<-100, 1>>

\* C3 as stated: in every filter state a vertex at current_time - tail_length
\* gets alpha exactly 0.0.
C3_Original ==
    (shaded.run /\ shaded.a_vertex_time = vshader.current_time - vshader.tail_length)
        => shaded.alpha = Zero

\* C3 amended: with use_fade on and the vertex not depth-culled, a vertex at
\* current_time - tail_length gets alpha 0.0 if tail_length + head_length > 0,
\* the hidden sentinel or 0 if the sum is negative, and an unspecified value
\* (the fade divides 0 by 0) if the sum is zero.
C3_TailBoundaryFaded ==
    (/\ shaded.run /\ vshader.use_fade = 1 /\ ~ShadedDepthCulled
     /\ shaded.a_vertex_time = vshader.current_time - vshader.tail_length)
        => /\ FadeDenominator > 0 => shaded.alpha = Zero
           /\ FadeDenominator < 0 => shaded.alpha \in HiddenAlphas
           /\ FadeDenominator = 0 => shaded.alpha \in UnspecifiedAlphas

\* C3 witness: a vertex at the tail boundary of a window with a head was faded to 0.
C3_Witness ==
    /\ shaded.run /\ vshader.use_fade = 1 /\ ~ShadedDepthCulled
    /\ vshader.tail_length > 0 /\ vshader.head_length > 0
    /\ shaded.a_vertex_time = vshader.current_time - vshader.tail_length
    /\ shaded.alpha = Zero

\* C4 as stated: in every filter state a vertex at current_time + head_length
\* gets alpha exactly 1.0.
C4_Original ==
    (shaded.run /\ shaded.a_vertex_time = vshader.current_time + vshader.head_length)
        => shaded.alpha = One

\* C4 amended: a vertex at current_time + head_length that is not depth-culled
\* gets alpha 1.0 if use_fade is off or tail_length + head_length is not
\* zero, and an unspecified value (the fade divides 0 by 0) otherwise; a
\* depth-culled one gets 1.0 with use_fade off and the sentinel or 0 with it on.
C4_HeadBoundaryVisible ==
    (shaded.run /\ shaded.a_vertex_time = vshader.current_time + vshader.head_length)
        => IF vshader.use_fade = 0 THEN shaded.alpha = One
           ELSE IF ShadedDepthCulled THEN shaded.alpha \in HiddenAlphas
           ELSE IF FadeDenominator # 0 THEN shaded.alpha = One
           ELSE shaded.alpha \in UnspecifiedAlphas

\* C4 witness: with use_fade on, a vertex at the head boundary got alpha 1.0.
C4_Witness ==
    /\ shaded.run /\ vshader.use_fade = 1 /\ ~ShadedDepthCulled
    /\ FadeDenominator # 0
    /\ shaded.a_vertex_time = vshader.current_time + vshader.head_length
    /\ shaded.alpha = One

\* C5 as stated: with interactive off, a run that differs from the shaded one
\* only in current_depth and vertex_depth (same incoming size, same value of
\* an unspecified division) keeps or discards the fragment alike.
C5_Original ==
    (shaded.run /\ vshader.interactive = 0) =>
        \A cz \in Depths \cup {-1}, vz \in Depths :
            LET u == [vshader EXCEPT !.current_z = cz]
                sz == size_out(u, vz, shaded.v_size_in)
            IN  \A a \in vertex_alphas(u, shaded.a_vertex_time, vz) :
                    a = shaded.alpha => frag_discard(a, sz) = shaded.discard

\* C8 as stated: with interactive on and current_depth set, a vertex farther
\* than max_distance in depth gets the sentinel or 0 whatever the rest is.
C8_Original ==
    (/\ shaded.run /\ vshader.interactive = 1 /\ vshader.current_z >= 0
     /\ ShadedZOffset > 3)
        => shaded.alpha \in HiddenAlphas

\* C8 amended: with interactive on, current_depth set and use_fade on, a
\* vertex farther than max_distance = 3 in depth gets the sentinel or 0 for
\* every vertex_time; with use_fade off it gets 1.0.
C8_DepthCulledHiddenWhenFading ==
    (/\ shaded.run /\ vshader.interactive = 1 /\ vshader.current_z >= 0
     /\ ShadedZOffset > 3)
        => IF vshader.use_fade = 0 THEN shaded.alpha = One
           ELSE shaded.alpha \in HiddenAlphas

\* C8 witness: a vertex inside the time window but 4 away in depth was hidden.
C8_Witness ==
    /\ shaded.run /\ vshader.interactive = 1 /\ vshader.use_fade = 1
    /\ vshader.current_z >= 0 /\ ShadedZOffset > 3
    /\ ~ShadedPastHead
    /\ shaded.alpha \in HiddenAlphas

(***************************************************************************)
(* Properties of the filter's fields (under Spec).                         *)
(***************************************************************************)
\* the uniform holds the assigned value (None and a slice have no number of
\* their own: the setter uploads its encoding of them)
UniformHolds(uniform, value) ==
    \/ isinstance(value, "None")
    \/ isinstance(value, "slice")
    \/ uniform = float(value)

\* C6 as stated: reading a field returns the value most recently assigned to
\* that field, and the field's uniform holds the same value.
C6_Original ==
    /\ get_current_time = assigned.current_time
    /\ get_current_z = assigned.current_z
    /\ get_tail_length = assigned.tail_length
    /\ get_head_length = assigned.head_length
    /\ get_use_fade = assigned.use_fade
    /\ get_interactive = assigned.interactive
    /\ UniformHolds(vshader.current_time, assigned.current_time)
    /\ UniformHolds(vshader.current_z, assigned.current_z)
    /\ UniformHolds(vshader.tail_length, assigned.tail_length)
    /\ UniformHolds(vshader.head_length, assigned.head_length)
    /\ UniformHolds(vshader.use_fade, assigned.use_fade)
    /\ UniformHolds(vshader.interactive, assigned.interactive)

\* C7 as stated: in every reachable filter state tail_length and head_length
\* are non-negative and, while use_fade is on, not both zero.
C7_Original ==
    /\ _tail_length[2] >= 0
    /\ _head_length[2] >= 0
    /\ _use_fade[2] => ~(_tail_length[2] = 0 /\ _head_length[2] = 0)

(***************************************************************************)
(* Properties of the mouse bindings (under SpecInteract).                  *)
(***************************************************************************)
\* the latest press carried the single modifier Control
ControlPress ==
    /\ Len(trace) > 0
    /\ event.modifiers = <<"Control">>

\* the mouse_move events delivered since the press, in order
MoveEvents == SelectSeq(trace, LAMBDA e : e.type = "mouse_move")

Released == Len(trace) > 0 /\ trace[Len(trace)].type = "mouse_release"

\* C9: a Control press calls select once; if select returns None the
\* interaction is over and nothing else is called; otherwise the calls are
\* exactly one move(v, position) per mouse_move event, in order, with the
\* vertex selected at the press and the position of that event, and the
\* release ends the drag without a further call.
C9_ControlDrag ==
    ControlPress =>
        /\ Len(calls) >= 1
        /\ calls[1].op = "select" /\ calls[1].a = trace[1].position
        /\ IF calls[1].ret = None
           THEN calls = <<calls[1]>> /\ gen = "none" /\ Len(trace) = 1
           ELSE /\ Len(calls) = 1 + Len(MoveEvents)
                /\ \A i \in 1..Len(MoveEvents) :
                      calls[1 + i] = MoveCall(calls[1].ret, MoveEvents[i].position)
                /\ gen = "none" <=> Released
                /\ gen # "none" => selected = calls[1].ret

\* C9 witness: a drag of two moves to different positions has been released.
C9_Witness ==
    /\ ControlPress /\ Released /\ gen = "none"
    /\ Len(MoveEvents) = 2
    /\ MoveEvents[1].position # MoveEvents[2].position
    /\ Len(calls) = 3

IsShiftControl(m) == Len(m) = 2 /\ InList("Shift", m) /\ InList("Control", m)

\* a step that is a Shift+Control click
ShiftControlClick ==
    gen = "none" /\ event'.type = "mouse_press" /\ IsShiftControl(event'.modifiers)

C10_Click ==
    ShiftControlClick =>
        LET sel == calls'[1].ret
        IN  /\ calls'[1] = SelectCall(event'.position, sel)
            /\ IF _selected_data # None /\ sel # None
               THEN calls' = <<calls'[1], JoinCall(_selected_data, sel)>>
               ELSE calls' = <<calls'[1]>>
            /\ _selected_data' = IF _selected_data = None THEN sel
                                 ELSE _selected_data

\* C10: a Shift+Control click calls join only when a selection is stored and
\* the click selects a vertex, and then as join(stored, selected); the first
\* click stores its selection without joining; a click that selects nothing
\* never joins and never overwrites a stored selection.
C10_JoinOnlyTwoSelected == [][C10_Click]_vars

\* C10 witness: a later click has joined its vertex to a different stored one.
C10_Witness ==
    /\ Len(calls) = 2 /\ calls[2].op = "join"
    /\ calls[2].a = _selected_data /\ calls[2].b = calls[1].ret
    /\ calls[2].a # None /\ calls[2].b # None /\ calls[2].a # calls[2].b

====
